---- MODULE Spec2Model ----
(***************************************************************************)
(* A model of deb/ar.go: the ar(1) archive cursor (LoadAr, Ar.Next) and    *)
(* the header decoder (parseArEntry, toDecimal, checkAr).                  *)
(*                                                                         *)
(* Bytes are the integers 0..255 and a string or byte slice is a sequence  *)
(* of bytes.  Slices are 1-indexed here: Go's line[58] is line[59].        *)
(* The byte source is an io.ReaderAt over a finite byte sequence that      *)
(* behaves as bytes.Reader and os.File do: a read that returns fewer bytes *)
(* than asked for also returns io.EOF, a full read returns no error.       *)
(* Integers are Go's int and int64 on a 64-bit build; every value of the   *)
(* model stays far inside that range, so no operation wraps.               *)
(***************************************************************************)
EXTENDS Integers, Sequences, FiniteSets, TLC

VARIABLES in, offset, loaded, loadErr, calls, layout, line, fields, results

vars == <<in, offset, loaded, loadErr, calls, layout, line, fields, results>>

(***************************************************************************)
(* Bounds of the model.                                                    *)
(***************************************************************************)
\* the most members an archive of the model holds
MaxMembers == 2
\* the most calls of Next the caller makes on one cursor
MaxCalls == 4
\* the most times one header is decoded
MaxDecodes == 2

(***************************************************************************)
(* Bytes and the strings the code names.                                   *)
(***************************************************************************)
\* '\n', the lone byte Next takes for a trailing blank line
NL == 10

\* the two bytes of the "File magic" that ends a header line: 0x60 0x0A
FileMagic0 == 96
FileMagic1 == 10

\* "!<arch>\n"
ArMagic == <<33, 60, 97, 114, 99, 104, 62, 10>>

\* make([]byte, 60): the header length Next reads and parseArEntry demands
HeaderLen == 60

\* Go's s[lo:hi] on a 1-indexed sequence
Slice(s, lo, hi) == SubSeq(s, lo + 1, hi)

\* unicode.IsSpace on the ASCII range: \t \n \v \f \r and the space
IsSpace(b) == b \in {9, 10, 11, 12, 13, 32}

RECURSIVE TrimLeft(_)
TrimLeft(s) ==
    IF s = <<>> THEN <<>>
    ELSE IF IsSpace(Head(s)) THEN TrimLeft(Tail(s)) ELSE s

RECURSIVE TrimRight(_)
TrimRight(s) ==
    IF s = <<>> THEN <<>>
    ELSE IF IsSpace(s[Len(s)]) THEN TrimRight(SubSeq(s, 1, Len(s) - 1)) ELSE s

\* strings.TrimSpace
TrimSpace(s) == TrimRight(TrimLeft(s))

\* strings.TrimSuffix(s, "/"): one trailing '/' (47) is removed, no more
TrimSuffixSlash(s) ==
    IF s # <<>> /\ s[Len(s)] = 47 THEN SubSeq(s, 1, Len(s) - 1) ELSE s

\* Go's % on int64 truncates towards zero: the remainder has the sign of a
GoRem(a, b) == IF a >= 0 THEN a % b ELSE 0 - ((0 - a) % b)

(***************************************************************************)
(* strconv.Atoi, fast path (the fields are at most 12 bytes long, below    *)
(* the 19 bytes at which Atoi turns to ParseInt): an optional sign '+'     *)
(* (43) or '-' (45), then one or more digits '0'..'9' (48..57) and nothing *)
(* else.  The empty string is a syntax error.                              *)
(***************************************************************************)
IsDigit(b) == b \in 48..57

RECURSIVE DigitsValue(_, _)
DigitsValue(s, n) ==
    IF s = <<>> THEN n ELSE DigitsValue(Tail(s), n * 10 + (Head(s) - 48))

Atoi(s) ==
    IF s = <<>> THEN [out |-> 0, err |-> "syntax"]
    ELSE LET signed == s[1] = 45 \/ s[1] = 43
             digits == IF signed THEN Tail(s) ELSE s
         IN  IF digits = <<>> THEN [out |-> 0, err |-> "syntax"]
             ELSE IF \E i \in 1..Len(digits) : ~IsDigit(digits[i])
                  THEN [out |-> 0, err |-> "syntax"]
             ELSE [out |-> IF s[1] = 45 THEN 0 - DigitsValue(digits, 0)
                           ELSE DigitsValue(digits, 0),
                   err |-> "nil"]

\* toDecimal: int64(out), err of strconv.Atoi
toDecimal(input) == Atoi(input)

(***************************************************************************)
(* ArEntry and the results of the operations.  Data is the SectionReader   *)
(* of the member: its base offset and its length n; set is FALSE while the *)
(* pointer is nil.  A result pairs the entry with the error, as the pair   *)
(* Go returns does; field is the entry name a parse error carries.         *)
(***************************************************************************)
NoData == [set |-> FALSE, base |-> 0, n |-> 0]

NoEntry ==
    [Name |-> <<>>, Timestamp |-> 0, OwnerID |-> 0, GroupID |-> 0,
     FileMode |-> <<>>, Size |-> 0, Data |-> NoData]

Failure(err, field) == [entry |-> NoEntry, err |-> err, field |-> field]

Success(entry) == [entry |-> entry, err |-> "nil", field |-> ""]

\* the errors the code makes with fmt.Errorf
FormatErrors ==
    {"Malformed file entry line length", "Malformed file entry line endings",
     "failed to parse entry", "Caught a short read at the end",
     "Header doesn't look right!"}

\* the errors the byte source makes, io.EOF apart
SourceErrors == {"negative offset"}

IsMember(r) == r.err = "nil"
IsEndOfArchive(r) == r.err = "EOF"
IsFormatError(r) == r.err \in FormatErrors

(***************************************************************************)
(* parseArEntry.  The numeric fields are the keys of a Go map, which the   *)
(* for-range visits in an order the language leaves unspecified: order is  *)
(* the order of one call, any permutation of the four entries.             *)
(***************************************************************************)
FieldNames == {"Timestamp", "OwnerID", "GroupID", "Size"}

Orders ==
    {o \in [1..4 -> FieldNames] : \A i, j \in 1..4 : i # j => o[i] # o[j]}

\* the slice of the line a map entry holds
FieldBytes(ln, f) ==
    CASE f = "Timestamp" -> Slice(ln, 16, 28)
      [] f = "OwnerID"   -> Slice(ln, 28, 34)
      [] f = "GroupID"   -> Slice(ln, 34, 40)
      [] f = "Size"      -> Slice(ln, 48, 58)

\* line[58] != 0x60 && line[59] != 0x0A
BadLineEnding(ln) == ln[59] # FileMagic0 /\ ln[60] # FileMagic1

\* a mutation of SkipField: no field is skipped, a blank one goes to toDecimal
SkipFieldNever(input) == FALSE

\* input == "": the field is left at its zero value
SkipField(input) == input = <<>>

\* the body of the for-range loop, from entry i of the order on
RECURSIVE parseFields(_, _, _, _)
parseFields(entry, ln, order, i) ==
    IF i > 4 THEN Success(entry)
    ELSE LET target == order[i]
             input == TrimSpace(FieldBytes(ln, target))
         IN  IF SkipField(input) THEN parseFields(entry, ln, order, i + 1)
             ELSE LET d == toDecimal(input)
                  IN  IF d.err # "nil"
                      THEN Failure("failed to parse entry", target)
                      ELSE parseFields([entry EXCEPT ![target] = d.out],
                                       ln, order, i + 1)

parseArEntry(ln, order) ==
    IF Len(ln) # HeaderLen THEN Failure("Malformed file entry line length", "")
    ELSE IF BadLineEnding(ln)
         THEN Failure("Malformed file entry line endings", "")
    ELSE parseFields(
             [NoEntry EXCEPT !.Name = TrimSuffixSlash(TrimSpace(Slice(ln, 0, 16))),
                             !.FileMode = TrimSpace(Slice(ln, 40, 48))],
             ln, order, 1)

(***************************************************************************)
(* The byte source: ReadAt(p, off) of a reader over the bytes src, with    *)
(* len(p) = n.  buf is p after the call: the bytes read, then the zeros    *)
(* make left there.                                                        *)
(***************************************************************************)
Min(a, b) == IF a <= b THEN a ELSE b

ReadAt(src, n, off) ==
    IF off < 0 THEN [n |-> 0, buf |-> [i \in 1..n |-> 0], err |-> "negative offset"]
    ELSE IF off >= Len(src) THEN [n |-> 0, buf |-> [i \in 1..n |-> 0], err |-> "EOF"]
    ELSE LET got == SubSeq(src, off + 1, Min(off + n, Len(src)))
         IN  [n |-> Len(got),
              buf |-> got \o [i \in 1..(n - Len(got)) |-> 0],
              err |-> IF Len(got) < n THEN "EOF" ELSE "nil"]

\* checkAr: the offset past the magic, or the error
checkAr(src) ==
    LET r == ReadAt(src, 8, 0)
    IN  IF r.err # "nil" THEN [offset |-> 0, err |-> r.err]
        ELSE IF r.buf # ArMagic THEN [offset |-> 0, err |-> "Header doesn't look right!"]
        ELSE [offset |-> Len(r.buf), err |-> "nil"]

\* a mutation of SectionOf: the section starts at the header, not after it
SectionAtHeader(off, count, size) == [set |-> TRUE, base |-> off, n |-> size]

\* io.NewSectionReader(d.in, d.offset+int64(count), entry.Size)
SectionOf(off, count, size) == [set |-> TRUE, base |-> off + count, n |-> size]

\* a mutation of NextOffset: the pad byte of an odd size is forgotten
NextOffsetNoPad(off, count, size) == off + count + size

\* d.offset += int64(count) + entry.Size + (entry.Size % 2)
NextOffset(off, count, size) == off + count + size + GoRem(size, 2)

\* what one call of Next returns and the offset it leaves, at offset off
NextResult(src, off, order) ==
    LET r == ReadAt(src, HeaderLen, off)
    IN  IF r.err # "nil" THEN [res |-> Failure(r.err, ""), offset |-> off]
        ELSE IF r.n = 1 /\ r.buf[1] = NL THEN [res |-> Failure("EOF", ""), offset |-> off]
        ELSE IF r.n # HeaderLen
             THEN [res |-> Failure("Caught a short read at the end", ""), offset |-> off]
        ELSE LET p == parseArEntry(r.buf, order)
             IN  IF p.err # "nil" THEN [res |-> p, offset |-> off]
                 ELSE [res |-> Success([p.entry EXCEPT
                                  !.Data = SectionOf(off, r.n, p.entry.Size)]),
                       offset |-> NextOffset(off, r.n, p.entry.Size)]

(***************************************************************************)
(* The archives and headers the operations are run on, written out in the  *)
(* layout the format table of parseArEntry gives: each field is the text,  *)
(* padded with spaces (32) to its width.  A numeric field is described by  *)
(* the value meant (val) and the text written (txt); kind tells a blank    *)
(* field from a decimal number and from text that is no number.            *)
(***************************************************************************)
RECURSIVE FmtNat(_)
FmtNat(n) == IF n < 10 THEN <<48 + n>> ELSE FmtNat(n \div 10) \o <<48 + (n % 10)>>

\* the decimal text of an integer, '-' (45) first when it is negative
FmtDec(n) == IF n < 0 THEN <<45>> \o FmtNat(0 - n) ELSE FmtNat(n)

Pad(s, n) == s \o [i \in 1..(n - Len(s)) |-> 32]

Blank == [kind |-> "blank", val |-> 0, txt |-> <<>>]
Num(v) == [kind |-> "num", val |-> v, txt |-> FmtDec(v)]
\* a number written right-aligned, a space before it
NumLead(v) == [kind |-> "num", val |-> v, txt |-> <<32>> \o FmtDec(v)]
\* a number written with an explicit '+' (43)
NumPlus(v) == [kind |-> "num", val |-> v, txt |-> <<43>> \o FmtDec(v)]
Bad(txt) == [kind |-> "bad", val |-> 0, txt |-> txt]

\* "foo", "baz", "debian-binary", "100644", "x", "1x", "-"
StrFoo == <<102, 111, 111>>
StrBaz == <<98, 97, 122>>
StrDebianBinary == <<100, 101, 98, 105, 97, 110, 45, 98, 105, 110, 97, 114, 121>>
StrMode == <<49, 48, 48, 54, 52, 52>>
StrX == <<120>>
Str1X == <<49, 120>>
StrMinus == <<45>>

\* the 60 bytes of the header a plan describes
Header(h) ==
    Pad(h.name \o (IF h.slash THEN <<47>> ELSE <<>>), 16)
        \o Pad(h.ts.txt, 12) \o Pad(h.uid.txt, 6) \o Pad(h.gid.txt, 6)
        \o Pad(h.mode, 8) \o Pad(h.size.txt, 10) \o <<h.t0, h.t1>>

NoPlan ==
    [name |-> <<>>, slash |-> FALSE, ts |-> Blank, uid |-> Blank, gid |-> Blank,
     mode |-> <<>>, size |-> Blank, t0 |-> 0, t1 |-> 0]

\* the headers the decoder is run on alone
DecodePlans ==
    [name : {StrFoo, StrDebianBinary}, slash : BOOLEAN,
     ts : {Blank, Num(1342943816), Bad(StrX)},
     uid : {Blank, NumLead(7), Bad(StrX)},
     gid : {Blank, Num(0), Bad(StrMinus)},
     mode : {StrMode},
     size : {Blank, Num(0), NumLead(3), Num(0 - 3), NumPlus(2), Bad(Str1X), Bad(StrMinus)},
     t0 : {FileMagic0, 65}, t1 : {FileMagic1, 32}]

Hdr(name, slash, ts, size, t0, t1) ==
    [name |-> name, slash |-> slash, ts |-> ts, uid |-> Num(0), gid |-> Num(0),
     mode |-> StrMode, size |-> size, t0 |-> t0, t1 |-> t1]

\* sz bytes of data, then the pad byte when sz is odd
Body(sz, fill) == [i \in 1..sz |-> fill] \o (IF sz % 2 = 1 THEN <<NL>> ELSE <<>>)

\* members as ar(1) writes them
GoodMembers ==
    {[hdr |-> Hdr(StrFoo, FALSE, Num(1342943816), Num(3), FileMagic0, FileMagic1),
      body |-> Body(3, 98)],
     [hdr |-> Hdr(StrBaz, TRUE, Num(0), Num(0), FileMagic0, FileMagic1),
      body |-> <<>>],
     [hdr |-> Hdr(StrFoo, TRUE, Blank, Blank, FileMagic0, FileMagic1),
      body |-> <<>>],
     [hdr |-> Hdr(StrBaz, FALSE, Num(0), Num(4), FileMagic0, FileMagic1),
      body |-> Body(4, NL)],
     [hdr |-> Hdr(StrFoo, TRUE, Num(0), NumLead(1), FileMagic0, FileMagic1),
      body |-> Body(1, NL)]}

\* members no ar(1) writes: a negative size, text that is no number, a wrong
\* line ending, data shorter than the size
OddMembers ==
    {[hdr |-> Hdr(StrFoo, FALSE, Num(0), Num(0 - 60), FileMagic0, FileMagic1),
      body |-> <<>>],
     [hdr |-> Hdr(StrFoo, FALSE, Num(0), Num(0 - 3), FileMagic0, FileMagic1),
      body |-> <<>>],
     [hdr |-> Hdr(StrFoo, FALSE, Num(0), Num(0 - 100), FileMagic0, FileMagic1),
      body |-> <<>>],
     [hdr |-> Hdr(StrFoo, FALSE, Bad(StrX), Bad(Str1X), FileMagic0, FileMagic1),
      body |-> <<>>],
     [hdr |-> Hdr(StrFoo, FALSE, Num(0), Num(0), 65, FileMagic1),
      body |-> <<>>],
     [hdr |-> Hdr(StrFoo, FALSE, Num(0), Num(0), FileMagic0, 32),
      body |-> <<>>],
     [hdr |-> Hdr(StrFoo, FALSE, Num(0), Num(3), FileMagic0, FileMagic1),
      body |-> <<98>>]}

MemberPlans == GoodMembers \cup OddMembers

SeqsUpTo(S, n) == UNION {[1..k -> S] : k \in 0..n}

\* what follows the last member: nothing, a blank line, the first 40 bytes
\* of a header, two blank lines
Tails == {"none", "newline", "header40", "newline2"}

TailBytes(t) ==
    CASE t = "none" -> <<>>
      [] t = "newline" -> <<NL>>
      [] t = "header40" ->
            SubSeq(Header(Hdr(StrBaz, TRUE, Num(0), Num(0), FileMagic0, FileMagic1)), 1, 40)
      [] t = "newline2" -> <<NL, NL>>

\* the first bytes of the source: the magic, the magic with byte at changed,
\* or only its first at bytes
MagicBytes(m) ==
    CASE m.kind = "ok" -> ArMagic
      [] m.kind = "bad" -> [ArMagic EXCEPT ![m.at] = 63]
      [] m.kind = "short" -> SubSeq(ArMagic, 1, m.at)

RECURSIVE MemberBytes(_)
MemberBytes(ms) ==
    IF ms = <<>> THEN <<>>
    ELSE Header(Head(ms).hdr) \o Head(ms).body \o MemberBytes(Tail(ms))

Layouts ==
    [magic : {[kind |-> "ok", at |-> 0]},
     members : SeqsUpTo(MemberPlans, MaxMembers), tail : Tails]
    \cup [magic : {[kind |-> "bad", at |-> p] : p \in {1, 8}},
          members : SeqsUpTo(GoodMembers, 1), tail : {"none", "newline"}]
    \cup [magic : {[kind |-> "short", at |-> k] : k \in 0..7},
          members : {<<>>}, tail : {"none"}]

NoLayout == [magic |-> [kind |-> "short", at |-> 0], members |-> <<>>, tail |-> "none"]

\* the bytes of the source a layout describes
Build(l) == MagicBytes(l.magic) \o MemberBytes(l.members) \o TailBytes(l.tail)

(***************************************************************************)
(* The cursor: LoadAr once, then Next as often as the caller asks.  calls  *)
(* is the record of the calls of Next made so far: the offset before, the  *)
(* offset after and what the call returned.                                *)
(***************************************************************************)
Init ==
    /\ layout \in Layouts
    /\ in = Build(layout)
    /\ offset = 0
    /\ loaded = "new"
    /\ loadErr = "nil"
    /\ calls = <<>>
    /\ line = <<>>
    /\ fields = NoPlan
    /\ results = <<>>

LoadAr ==
    /\ loaded = "new"
    /\ LET r == checkAr(in)
       IN  IF r.err # "nil"
           THEN /\ loaded' = "failed"
                /\ loadErr' = r.err
                /\ offset' = offset
           ELSE /\ loaded' = "open"
                /\ loadErr' = "nil"
                /\ offset' = r.offset
    /\ UNCHANGED <<in, calls, layout, line, fields, results>>

Next ==
    /\ loaded = "open"
    /\ Len(calls) < MaxCalls
    /\ \E r \in {NextResult(in, offset, order) : order \in Orders} :
          /\ offset' = r.offset
          /\ calls' = Append(calls,
                 [before |-> offset, after |-> r.offset, res |-> r.res])
    /\ UNCHANGED <<in, loaded, loadErr, layout, line, fields, results>>

Step == LoadAr \/ Next

Spec == Init /\ [][Step]_vars

(***************************************************************************)
(* The decoder alone: one header line, decoded MaxDecodes times, each time *)
(* in whatever order the map is visited.                                   *)
(***************************************************************************)
DecodeInit ==
    /\ fields \in DecodePlans
    /\ line = Header(fields)
    /\ results = <<>>
    /\ layout = NoLayout
    /\ in = <<>>
    /\ offset = 0
    /\ loaded = "new"
    /\ loadErr = "nil"
    /\ calls = <<>>

Decode ==
    /\ Len(results) < MaxDecodes
    /\ \E r \in {parseArEntry(line, order) : order \in Orders} :
          results' = Append(results, r)
    /\ UNCHANGED <<in, offset, loaded, loadErr, calls, layout, line, fields>>

DecodeSpec == DecodeInit /\ [][Decode]_vars

(***************************************************************************)
(* What the claims speak of.                                               *)
(***************************************************************************)
\* the numeric field of a header plan a map entry decodes
PlanField(h, f) ==
    CASE f = "Timestamp" -> h.ts
      [] f = "OwnerID"   -> h.uid
      [] f = "GroupID"   -> h.gid
      [] f = "Size"      -> h.size

\* every numeric field of the plan is blank or a decimal number
NumbersWellFormed(h) == \A f \in FieldNames : PlanField(h, f).kind # "bad"

\* a member as the format has it: a valid header, then size bytes of data,
\* then one pad byte iff size is odd
WellFormedMember(m) ==
    /\ m.hdr.t0 = FileMagic0 /\ m.hdr.t1 = FileMagic1
    /\ NumbersWellFormed(m.hdr)
    /\ m.hdr.size.val >= 0
    /\ Len(m.body) = m.hdr.size.val + (m.hdr.size.val % 2)

\* the magic, well-formed members, then nothing or one newline
WellFormed(l) ==
    /\ l.magic.kind = "ok"
    /\ \A i \in 1..Len(l.members) : WellFormedMember(l.members[i])
    /\ l.tail \in {"none", "newline"}

\* the bytes left in the source at the offset a call of Next started from
Left(c) == Len(in) - c.before

\* C1: a 60-byte header whose other fields are well-formed and whose last
\* two bytes are not exactly 0x60 0x0A (either one wrong, or both) is
\* rejected by parseArEntry with a FormatError and no descriptor.
C1_BadEndingRejected ==
    \A i \in 1..Len(results) :
        (NumbersWellFormed(fields) /\ (line[59] # 96 \/ line[60] # 10))
            => (IsFormatError(results[i]) /\ results[i].entry = NoEntry)

\* C2: Next called where 1 <= k < 60 bytes are left, the lone trailing
\* newline apart, fails with a FormatError: neither EndOfArchive nor a Member.
C2_TruncationIsFormatError ==
    \A i \in 1..Len(calls) :
        LET c == calls[i]
        IN  (/\ c.before >= 0
             /\ Left(c) >= 1 /\ Left(c) < 60
             /\ ~(Left(c) = 1 /\ in[c.before + 1] = 10))
                => IsFormatError(c.res)

\* C3: a successful Next never moves the offset backwards.
C3_OffsetNonDecreasing ==
    \A i \in 1..Len(calls) :
        IsMember(calls[i].res) => calls[i].after >= calls[i].before

\* C4: a successful Next that decoded size s at offset o leaves the offset
\* at o + 60 + s + 1 when s is odd and at o + 60 + s when s is even.
C4_PadIffOdd ==
    \A i \in 1..Len(calls) :
        LET c == calls[i]
            s == c.res.entry.Size
        IN  IsMember(c.res) =>
                c.after = c.before + 60 + s + (IF s % 2 = 1 THEN 1 ELSE 0)

\* the data range of the member a call returned starts 60 bytes after the
\* header's offset, has the decoded size as its length, and shares no byte
\* with the header
DataRangeAfterHeader(c) ==
    LET d == c.res.entry.Data
    IN  /\ d.set
        /\ d.base = c.before + 60
        /\ d.n = c.res.entry.Size
        /\ (c.before .. c.before + 59) \cap (d.base .. d.base + d.n - 1) = {}

\* C5: every Member returned by Next has the data range that starts at its
\* header's offset plus 60, with the decoded size as length, clear of the
\* header; and later calls of Next leave the Members already returned as
\* they were.
C5_DataRange ==
    /\ [](\A i \in 1..Len(calls) :
            IsMember(calls[i].res) => DataRangeAfterHeader(calls[i]))
    /\ [][\A i \in 1..Len(calls) : calls'[i] = calls[i]]_vars

\* a Member with data was returned, and Next was called again after it
C5_Witness ==
    /\ Len(calls) >= 2
    /\ IsMember(calls[1].res)
    /\ calls[1].res.entry.Size = 3
    /\ IsMember(calls[2].res)

\* C6: on a well-formed archive of n members, with or without one trailing
\* newline, LoadAr succeeds, calls 1..n of Next return the members in
\* archive order with their names and sizes, and call n+1 returns
\* EndOfArchive.
C6_CompleteIteration ==
    WellFormed(layout) =>
        /\ loaded # "failed"
        /\ \A i \in 1..Len(calls) :
              LET n == Len(layout.members)
                  r == calls[i].res
              IN  /\ i <= n =>
                        /\ IsMember(r)
                        /\ r.entry.Name = layout.members[i].hdr.name
                        /\ r.entry.Size = layout.members[i].hdr.size.val
                  /\ i = n + 1 => IsEndOfArchive(r)

\* {foo,3} then {baz,0}, a trailing newline, and the third call made
C6_Witness ==
    /\ WellFormed(layout)
    /\ layout.tail = "newline"
    /\ Len(layout.members) = 2
    /\ Len(calls) = 3
    /\ calls[1].res.entry.Name = StrFoo /\ calls[1].res.entry.Size = 3
    /\ calls[2].res.entry.Name = StrBaz /\ calls[2].res.entry.Size = 0
    /\ IsEndOfArchive(calls[3].res)

\* C7: LoadAr fails, with a FormatError and no cursor, exactly when the
\* source has fewer than 8 bytes or its first 8 bytes are not the magic;
\* otherwise the cursor it returns starts at offset 8.
C7_LoadArMagicOnly ==
    loaded # "new" =>
        LET bad == Len(in) < 8 \/ SubSeq(in, 1, 8) # ArMagic
        IN  /\ (loaded = "failed") <=> bad
            /\ loaded = "failed" => loadErr \in FormatErrors
            /\ (loaded = "open" /\ calls = <<>>) => offset = 8

\* C8: in a header with a valid terminator whose non-blank numeric fields
\* parse, every blank numeric field decodes to 0 and every other one to
\* its value.
C8_BlankIsZero ==
    \A i \in 1..Len(results) :
        (fields.t0 = 96 /\ fields.t1 = 10 /\ NumbersWellFormed(fields)) =>
            /\ results[i].err = "nil"
            /\ \A f \in FieldNames :
                  /\ PlanField(fields, f).kind = "blank" => results[i].entry[f] = 0
                  /\ PlanField(fields, f).kind = "num" =>
                        results[i].entry[f] = PlanField(fields, f).val

\* a header decoded with the timestamp and the size blank, the owner id not
C8_Witness ==
    /\ Len(results) >= 1
    /\ fields.t0 = 96 /\ fields.t1 = 10
    /\ fields.ts.kind = "blank" /\ fields.size.kind = "blank"
    /\ fields.uid.kind = "num" /\ fields.gid.kind = "num"
    /\ results[1].err = "nil"
    /\ results[1].entry.OwnerID = 7

\* C9: decoding the same 60 bytes twice gives the same result, the same
\* descriptor or the same error naming the same field.
C9_Deterministic ==
    \A i, j \in 1..Len(results) : results[i] = results[j]

\* C10: every successful Next moves the offset strictly forward, so no
\* source makes Next return Members forever.
C10_OffsetStrictlyForward ==
    \A i \in 1..Len(calls) :
        IsMember(calls[i].res) => calls[i].after > calls[i].before

====
